---- MODULE Spec2Model ----
(***************************************************************************)
(* A model of assets/js/connections.mjs: the lazily connecting WebSocket   *)
(* helper (openWebSocket / closeWebSocket), the request correlator         *)
(* (sendRequest, its 30 s timer, _handleWebSocketMessage) and the          *)
(* transports the module instantiates, driven by the host's event loop.    *)
(***************************************************************************)
EXTENDS Integers, Sequences, FiniteSets, TLC

\* ------------------------------------------------------------------ bounds
\* the number of objects a run creates: transports instantiated plus sendRequest calls
MaxCreated == 4

\* ------------------------------------------------------------ input domains
\* request types passed to sendRequest(type, payload)
Types == {"getToken"}
\* request payloads; "cyclic" stands for a value JSON.stringify throws on
Payloads == {"data", "cyclic"}
\* payload values a server frame may carry
ReplyPayloads == {"p1", "p2"}
\* values of a server frame's error field when the field is present
ErrorTexts == {"", "boom"}

\* websocket          the handle: 0 (null) or the index of a transport
\* connectionPromise  0 (null) or the index of a promise
\* messageHandlers    the table of in-flight requests: entries [id, req]
\* messageId          the identifier counter
\* transports         every WebSocket instantiated so far: its readyState, the
\*                    promise its handlers settle, and how far its error/close
\*                    events have been dispatched (phase: live, errored, closed)
\* promises           every connection promise created so far
\* requests           every sendRequest call so far: its arguments, where it stands
\*                    (pc: await, sent, end), its id and timer, and its future
\* ret                the promise openWebSocket() returned in the last step (0 when
\*                    the step was no call of it)
\* console            the diagnostic the last step logged when it took no action
\*                    (lines 34, 39, 62, 142), "none" otherwise
VARIABLES websocket, connectionPromise, messageHandlers, messageId,
          transports, promises, requests, ret, console

vars == <<websocket, connectionPromise, messageHandlers, messageId,
          transports, promises, requests, ret, console>>

\* ------------------------------------------------------------------ values
\* A settled value: a payload, the transport's error event, or an Error object.
Val(kind, text, type, n) == [kind |-> kind, text |-> text, type |-> type, n |-> n]
Undefined == Val("undefined", "", "", 0)
PayloadVal(p) == Val("payload", p, "", 0)
\* the event object the transport hands to onerror
ErrorEvent(t) == Val("Event", "error", "", t)
\* new Error(message.error)
RemoteError(text) == Val("Error", text, "", 0)
\* new Error('WebSocket is not connected.')
NotConnectedError == Val("Error", "WebSocket is not connected.", "", 0)
\* new Error(`Request '${type}' (id: ${id}) timed out.`)
TimeoutError(type, id) == Val("Error", "timed out", type, id)
\* what JSON.stringify throws on a value it cannot encode
EncodeError == Val("TypeError", "cyclic object value", "", 0)

\* JSON.stringify({id, type, payload}) returns normally
Encodable(payload) == payload # "cyclic"

\* the incoming frames: undecodable text, or an envelope {id?, payload?, error?}
\* (id 0 stands for a frame without id)
Frames ==
  [decodes : {FALSE}, id : {0}, hasError : {FALSE}, error : {""}, payload : {"p1"}]
  \cup [decodes : {TRUE}, id : {0}, hasError : {FALSE}, error : {""}, payload : {"p1"}]
  \cup [decodes : {TRUE}, id : 1..(MaxCreated - 1), hasError : {FALSE},
        error : {""}, payload : ReplyPayloads]
  \cup [decodes : {TRUE}, id : 1..(MaxCreated - 1), hasError : {TRUE},
        error : ErrorTexts, payload : {"p1"}]

\* a test for the presence of the error field instead of its truthiness
M_ErrorTruthy(m) == m.hasError

\* JavaScript truthiness of message.error
ErrorTruthy(m) == m.hasError /\ m.error # ""

\* ------------------------------------------------------------------- state
Init ==
  /\ websocket = 0
  /\ connectionPromise = 0
  /\ messageHandlers = {}
  /\ messageId = 0
  /\ transports = <<>>
  /\ promises = <<>>
  /\ requests = <<>>
  /\ ret = 0
  /\ console = "none"

\* messageHandlers.has(id)
Has(id) == \E h \in messageHandlers : h.id = id

\* a lookup that takes the oldest entry instead of the entry of the id
M_Handler(id) == CHOOSE h \in messageHandlers : \A g \in messageHandlers : h.id <= g.id

\* messageHandlers.get(id)
Handler(id) == CHOOSE h \in messageHandlers : h.id = id

\* messageHandlers.set(id, {resolve, reject}) for request r
SetEntry(hs, id, r) == {h \in hs : h.id # id} \cup {[id |-> id, req |-> r]}

\* a delete that leaves the entry in place
M_RemoveEntry(hs, id) == hs

\* messageHandlers.delete(id)
RemoveEntry(hs, id) == {h \in hs : h.id # id}

\* an allocation that does not advance the counter
M_AllocateId(n) == n

\* ++messageId
AllocateId(n) == n + 1

\* ------------------------------------------------------------- event loop
\* a sendRequest continuation whose awaited promise has settled is a queued microtask
Runnable(r) ==
  /\ requests[r].pc = "await"
  /\ promises[requests[r].awaits].state # "pending"
MicrotasksPending == \E r \in 1..Len(requests) : Runnable(r)
\* queued continuations run in the order they were queued
NextMicrotask(r) == Runnable(r) /\ \A q \in 1..(r - 1) : ~Runnable(q)
\* a transport whose error event has been dispatched and whose close event follows
\* in the same task
MidTask == \E t \in 1..Len(transports) : transports[t].phase = "errored"
\* a new task (timer, message, transport event) starts only between tasks
TaskMayStart == ~MicrotasksPending /\ ~MidTask
\* caller code runs in its own task or in a microtask; between an error event and
\* its close event only if the error rejected a pending promise (a reaction runs)
UserMayRun == \A t \in 1..Len(transports) :
                 transports[t].phase = "errored" => transports[t].woke

\* ------------------------------------------------------- promise plumbing
\* resolve()/reject() of promise p: settles it only if it is still pending
SettlePromise(ps, p, state, value) ==
  IF ps[p].state = "pending"
    THEN [ps EXCEPT ![p] = [state |-> state, value |-> value]]
    ELSE ps

\* resolve()/reject() of request r's future
SettleRequest(rs, r, state, value) ==
  IF rs[r].state = "pending"
    THEN [rs EXCEPT ![r].state = state, ![r].value = value]
    ELSE rs

\* --------------------------------------------------------- openWebSocket
\* the run stays within the bound on created objects
WithinBounds ==
  /\ Len(transports) + Len(requests) <= MaxCreated
  /\ Len(promises) + Len(requests) <= MaxCreated

NewTransport(p) == [readyState |-> "CONNECTING", promise |-> p,
                    phase |-> "live", woke |-> FALSE]
PendingPromise == [state |-> "pending", value |-> Undefined]
ResolvedPromise == [state |-> "resolved", value |-> Undefined]

\* The executor of `new Promise(...)` in openWebSocket(), with the assignment of the
\* new promise to connectionPromise; the value returned is ret'.
Executor ==
  LET p == Len(promises) + 1 IN
  /\ connectionPromise' = p
  /\ ret' = p
  /\ IF websocket # 0 /\ transports[websocket].readyState = "OPEN"
       THEN /\ promises' = Append(promises, ResolvedPromise)
            /\ console' = "none"
            /\ UNCHANGED <<websocket, transports>>
     ELSE IF websocket # 0 /\ transports[websocket].readyState = "CONNECTING"
       THEN /\ promises' = Append(promises, PendingPromise)
            /\ console' = "in progress"
            /\ UNCHANGED <<websocket, transports>>
     ELSE /\ promises' = Append(promises, PendingPromise)
          /\ transports' = Append(transports, NewTransport(p))
          /\ websocket' = Len(transports) + 1
          /\ console' = "none"

\* openWebSocket() without its early return of the existing promise
M_DoOpen == Executor

\* The body of openWebSocket().
DoOpen ==
  IF connectionPromise # 0
    THEN /\ ret' = connectionPromise
         /\ console' = "none"
         /\ UNCHANGED <<websocket, connectionPromise, transports, promises>>
    ELSE Executor

\* a caller invokes openWebSocket() directly
OpenWebSocket ==
  /\ UserMayRun
  /\ DoOpen
  /\ UNCHANGED <<messageHandlers, messageId, requests>>
  /\ WithinBounds'

\* ----------------------------------------------------------- sendRequest
\* afterEvent records that the call found no handle because a transport had emitted
\* its error or close event
NewRequest(type, payload, p) ==
  [type |-> type, payload |-> payload, awaits |-> p, pc |-> "await",
   id |-> 0, timer |-> "none", state |-> "pending", value |-> Undefined,
   afterEvent |-> (websocket = 0 /\ \E t \in 1..Len(transports) :
                                       transports[t].phase # "live")]

\* sendRequest(type, payload) up to its await: calls openWebSocket() and suspends
SendRequest(type, payload) ==
  /\ UserMayRun
  /\ DoOpen
  /\ requests' = Append(requests, NewRequest(type, payload, ret'))
  /\ WithinBounds'
  /\ UNCHANGED <<messageHandlers, messageId>>

\* a catch block that replaces the caught error by a generic one
M_ResumeRejected(r) ==
  /\ requests' = [SettleRequest(requests, r, "rejected", NotConnectedError)
                    EXCEPT ![r].pc = "end", ![r].awaits = 0]
  /\ console' = "none"
  /\ UNCHANGED <<messageHandlers, messageId>>

\* the continuation of sendRequest after the awaited promise rejected: catch block
ResumeRejected(r) ==
  /\ requests' = [SettleRequest(requests, r, "rejected",
                                promises[requests[r].awaits].value)
                    EXCEPT ![r].pc = "end", ![r].awaits = 0]
  /\ console' = "none"
  /\ UNCHANGED <<messageHandlers, messageId>>

\* ... after it resolved, but the handle is absent or not OPEN
ResumeNotConnected(r) ==
  /\ requests' = [SettleRequest(requests, r, "rejected", NotConnectedError)
                    EXCEPT ![r].pc = "end", ![r].awaits = 0]
  /\ console' = "none"
  /\ UNCHANGED <<messageHandlers, messageId>>

\* ... after it resolved with a usable handle: allocate, register, encode, send, arm
ResumeSend(r) ==
  LET id == AllocateId(messageId) IN
  /\ messageId' = id
  /\ messageHandlers' = SetEntry(messageHandlers, id, r)
  /\ IF Encodable(requests[r].payload)
       THEN /\ requests' = [requests EXCEPT ![r].pc = "sent", ![r].id = id,
                                            ![r].awaits = 0,
                                            ![r].timer = "armed"]
            /\ console' = "none"
       ELSE /\ requests' = [SettleRequest(requests, r, "rejected", EncodeError)
                              EXCEPT ![r].pc = "end", ![r].id = id, ![r].awaits = 0]
            /\ console' = "none"

\* the microtask that resumes sendRequest r after `await openWebSocket()`
Resume(r) ==
  /\ r \in 1..Len(requests)
  /\ NextMicrotask(r)
  /\ IF promises[requests[r].awaits].state = "rejected"
       THEN ResumeRejected(r)
     ELSE IF websocket = 0 \/ transports[websocket].readyState # "OPEN"
       THEN ResumeNotConnected(r)
     ELSE ResumeSend(r)
  /\ ret' = 0
  /\ UNCHANGED <<websocket, connectionPromise, transports, promises>>

\* timers of equal delay fire in the order they were armed
EarlierTimerArmed(r) ==
  \E q \in 1..Len(requests) :
     requests[q].timer = "armed" /\ requests[q].id < requests[r].id

\* the setTimeout callback of request r
Timeout(r) ==
  /\ r \in 1..Len(requests)
  /\ requests[r].timer = "armed"
  /\ TaskMayStart
  /\ ~EarlierTimerArmed(r)
  /\ IF Has(requests[r].id)
       THEN /\ messageHandlers' = RemoveEntry(messageHandlers, requests[r].id)
            /\ requests' = [SettleRequest(requests, r, "rejected",
                                          TimeoutError(requests[r].type, requests[r].id))
                              EXCEPT ![r].timer = "fired"]
       ELSE /\ requests' = [requests EXCEPT ![r].timer = "fired"]
            /\ UNCHANGED messageHandlers
  /\ ret' = 0
  /\ console' = "none"
  /\ UNCHANGED <<websocket, connectionPromise, messageId, transports, promises>>

\* ------------------------------------------------- _handleWebSocketMessage
\* a handler that gives a frame without a matching entry to the oldest pending request
M_HandleWebSocketMessage(m) ==
  IF ~m.decodes
    THEN /\ console' = "parse error"
         /\ UNCHANGED <<messageHandlers, requests>>
  ELSE IF messageHandlers # {}
    THEN LET h == IF m.id # 0 /\ Has(m.id) THEN Handler(m.id) ELSE M_Handler(m.id) IN
         /\ requests' =
              IF ErrorTruthy(m)
                THEN SettleRequest(requests, h.req, "rejected", RemoteError(m.error))
                ELSE SettleRequest(requests, h.req, "resolved", PayloadVal(m.payload))
         /\ messageHandlers' = RemoveEntry(messageHandlers, h.id)
         /\ console' = "none"
  ELSE /\ console' = "no handler"
       /\ UNCHANGED <<messageHandlers, requests>>

\* _handleWebSocketMessage(event) for the frame m = event.data
HandleWebSocketMessage(m) ==
  IF ~m.decodes
    THEN /\ console' = "parse error"
         /\ UNCHANGED <<messageHandlers, requests>>
  ELSE IF m.id # 0 /\ Has(m.id)
    THEN LET r == Handler(m.id).req IN
         /\ requests' =
              IF ErrorTruthy(m)
                THEN SettleRequest(requests, r, "rejected", RemoteError(m.error))
                ELSE SettleRequest(requests, r, "resolved", PayloadVal(m.payload))
         /\ messageHandlers' = RemoveEntry(messageHandlers, m.id)
         /\ console' = "none"
  ELSE /\ console' = "no handler"
       /\ UNCHANGED <<messageHandlers, requests>>

\* a message event: only an OPEN transport delivers messages, and every transport
\* delivers them to the same handler
TransportMessage(m) ==
  /\ \E t \in 1..Len(transports) :
        transports[t].readyState = "OPEN" /\ transports[t].phase = "live"
  /\ TaskMayStart
  /\ HandleWebSocketMessage(m)
  /\ ret' = 0
  /\ UNCHANGED <<websocket, connectionPromise, messageId, transports, promises>>

\* ------------------------------------------------------ transport events
\* an onopen that does not resolve the connection promise
M_TransportOpen(t) ==
  /\ t \in 1..Len(transports)
  /\ transports[t].readyState = "CONNECTING"
  /\ transports[t].phase = "live"
  /\ TaskMayStart
  /\ transports' = [transports EXCEPT ![t].readyState = "OPEN"]
  /\ console' = "none"
  /\ ret' = 0
  /\ UNCHANGED <<websocket, connectionPromise, messageHandlers, messageId,
                 promises, requests>>

\* onopen: the handshake of transport t completed
TransportOpen(t) ==
  /\ t \in 1..Len(transports)
  /\ transports[t].readyState = "CONNECTING"
  /\ transports[t].phase = "live"
  /\ TaskMayStart
  /\ transports' = [transports EXCEPT ![t].readyState = "OPEN"]
  /\ promises' = SettlePromise(promises, transports[t].promise, "resolved", Undefined)
  /\ console' = "none"
  /\ ret' = 0
  /\ UNCHANGED <<websocket, connectionPromise, messageHandlers, messageId, requests>>

\* an onerror that clears the handle but keeps the rejected connection promise
M_TransportError(t) ==
  /\ t \in 1..Len(transports)
  /\ transports[t].phase = "live"
  /\ TaskMayStart
  /\ transports' = [transports EXCEPT
                      ![t].readyState = "CLOSED", ![t].phase = "errored",
                      ![t].woke = (promises[transports[t].promise].state = "pending")]
  /\ websocket' = 0
  /\ promises' = SettlePromise(promises, transports[t].promise, "rejected", ErrorEvent(t))
  /\ console' = "none"
  /\ ret' = 0
  /\ UNCHANGED <<connectionPromise, messageHandlers, messageId, requests>>

\* onerror: transport t failed; its close event follows
TransportError(t) ==
  /\ t \in 1..Len(transports)
  /\ transports[t].phase = "live"
  /\ TaskMayStart
  /\ transports' = [transports EXCEPT
                      ![t].readyState = "CLOSED", ![t].phase = "errored",
                      ![t].woke = (promises[transports[t].promise].state = "pending")]
  /\ websocket' = 0
  /\ connectionPromise' = 0
  /\ promises' = SettlePromise(promises, transports[t].promise, "rejected", ErrorEvent(t))
  /\ console' = "none"
  /\ ret' = 0
  /\ UNCHANGED <<messageHandlers, messageId, requests>>

\* an onclose that leaves the handle and the connection promise in place
M_TransportClose(t) ==
  /\ t \in 1..Len(transports)
  /\ \/ transports[t].phase = "live" /\ TaskMayStart
     \/ transports[t].phase = "errored" /\ ~MicrotasksPending
  /\ transports' = [transports EXCEPT ![t].readyState = "CLOSED", ![t].phase = "closed",
                                     ![t].woke = FALSE]
  /\ console' = "none"
  /\ ret' = 0
  /\ UNCHANGED <<websocket, connectionPromise, messageHandlers, messageId,
                 promises, requests>>

\* onclose: transport t closed (after its error event, or without one)
TransportClose(t) ==
  /\ t \in 1..Len(transports)
  /\ \/ transports[t].phase = "live" /\ TaskMayStart
     \/ transports[t].phase = "errored" /\ ~MicrotasksPending
  /\ transports' = [transports EXCEPT ![t].readyState = "CLOSED", ![t].phase = "closed",
                                     ![t].woke = FALSE]
  /\ websocket' = 0
  /\ connectionPromise' = 0
  /\ console' = "none"
  /\ ret' = 0
  /\ UNCHANGED <<messageHandlers, messageId, promises, requests>>

\* ---------------------------------------------------------- closeWebSocket
\* WebSocket.close(): a connecting or open transport starts closing
CloseTransport(ts, t) ==
  IF ts[t].readyState \in {"CONNECTING", "OPEN"}
    THEN [ts EXCEPT ![t].readyState = "CLOSING"]
    ELSE ts

\* a closeWebSocket() that also forgets the pending requests
M_CloseWebSocket ==
  /\ UserMayRun
  /\ IF websocket # 0
       THEN /\ transports' = CloseTransport(transports, websocket)
            /\ websocket' = 0
            /\ connectionPromise' = 0
            /\ console' = "none"
       ELSE /\ console' = "no action"
            /\ UNCHANGED <<websocket, connectionPromise, transports>>
  /\ ret' = 0
  /\ messageHandlers' = {}
  /\ UNCHANGED <<messageId, promises, requests>>

\* closeWebSocket()
CloseWebSocket ==
  /\ UserMayRun
  /\ IF websocket # 0
       THEN /\ transports' = CloseTransport(transports, websocket)
            /\ websocket' = 0
            /\ connectionPromise' = 0
            /\ console' = "none"
       ELSE /\ console' = "no action"
            /\ UNCHANGED <<websocket, connectionPromise, transports>>
  /\ ret' = 0
  /\ UNCHANGED <<messageHandlers, messageId, promises, requests>>

\* ------------------------------------------------------------ specification
Next ==
  \/ OpenWebSocket
  \/ \E type \in Types, payload \in Payloads : SendRequest(type, payload)
  \/ CloseWebSocket
  \/ \E r \in 1..MaxCreated : Resume(r)
  \/ \E r \in 1..MaxCreated : Timeout(r)
  \/ \E t \in 1..MaxCreated : TransportOpen(t)
  \/ \E t \in 1..MaxCreated : TransportError(t)
  \/ \E t \in 1..MaxCreated : TransportClose(t)
  \/ \E m \in Frames : TransportMessage(m)

Spec == Init /\ [][Next]_vars

\* timers fire, queued continuations run, and every transport that can still emit
\* an event eventually emits one
Fairness ==
  /\ \A r \in 1..MaxCreated : WF_vars(Resume(r))
  /\ \A r \in 1..MaxCreated : WF_vars(Timeout(r))
  /\ \A t \in 1..MaxCreated :
       WF_vars(TransportOpen(t) \/ TransportError(t) \/ TransportClose(t))

FairSpec == Spec /\ Fairness

\* ================================================================== claims
\* the transport whose handlers settle promise p
TransportOf(p) == CHOOSE t \in 1..Len(transports) : transports[t].promise = p
\* a step in which openWebSocket() was called (directly or by sendRequest)
OpenCalled == ret' # 0
\* request r existed before the step and its future is settled by the step
SettledInStep(r) == requests[r].state = "pending" /\ requests'[r].state # "pending"
\* request r is suspended at its await and resumes in the step
ResumedInStep(r) == Runnable(r) /\ requests'[r].pc # "await"

C2_CorrelatedById ==
  [][ \A r \in 1..Len(requests) :
        /\ (SettledInStep(r) /\ requests'[r].state = "resolved") =>
             \E m \in Frames :
                /\ m.decodes /\ m.id = requests[r].id
                /\ requests'[r].value = PayloadVal(m.payload)
                /\ TransportMessage(m)
        /\ \A m \in Frames :
             (/\ m.decodes /\ ~m.hasError
              /\ requests[r].pc = "sent" /\ requests[r].state = "pending"
              /\ m.id = requests[r].id
              /\ TransportMessage(m)) =>
                /\ requests'[r].state = "resolved"
                /\ requests'[r].value = PayloadVal(m.payload)
                /\ \A q \in 1..Len(requests) : q # r => requests'[q] = requests[q]
    ]_vars

\* C2 witness: the request sent second (id 2) has been answered while the request
\* sent first (id 1) is still pending.
C2_Witness ==
  /\ Len(requests) = 2
  /\ requests[1].id = 1 /\ requests[1].pc = "sent" /\ requests[1].state = "pending"
  /\ requests[2].id = 2 /\ requests[2].state = "resolved"
  /\ requests[2].value = PayloadVal("p2")

\* C3: when the timer of a request whose entry is still registered fires, the request
\* is rejected with the timeout error naming its type and id and the entry is removed
\* in that step; afterwards a frame with that id changes neither the request nor the
\* table.
TimedOut(r) ==
  /\ requests[r].timer = "fired"
  /\ requests[r].state = "rejected"
  /\ requests[r].value = TimeoutError(requests[r].type, requests[r].id)

C3_TimeoutRejectsAndDrops ==
  [][ \A r \in 1..Len(requests) :
        /\ (requests[r].timer = "armed" /\ requests'[r].timer = "fired"
              /\ Has(requests[r].id)) =>
             /\ requests'[r].state = "rejected"
             /\ requests'[r].value = TimeoutError(requests[r].type, requests[r].id)
             /\ \A h \in messageHandlers' : h.id # requests[r].id
        /\ TimedOut(r) =>
             /\ requests'[r] = requests[r]
             /\ \A m \in Frames :
                  (m.id = requests[r].id /\ TransportMessage(m)) =>
                     UNCHANGED <<messageHandlers, requests>>
    ]_vars

\* C3 witness: a request has timed out and a frame was afterwards dropped for want of
\* a handler.
C3_Witness ==
  \E r \in 1..Len(requests) :
     TimedOut(r) /\ ~Has(requests[r].id) /\ console = "no handler"

\* C4: after a transport error or close event the handle and the connection promise
\* are null; the next openWebSocket/sendRequest call instantiates a new transport;
\* and a sendRequest issued then is carried out on the new connection once it has
\* opened: when the request resumes with that transport open, the handle is that
\* transport and the request is given an id.
C4_ReconnectCarriesRequest ==
  [][ /\ \A t \in 1..Len(transports) :
           (transports'[t].phase # transports[t].phase) =>
              (websocket' = 0 /\ connectionPromise' = 0)
      /\ (OpenCalled /\ websocket = 0 /\ connectionPromise = 0) =>
           /\ Len(transports') = Len(transports) + 1
           /\ websocket' = Len(transports')
      /\ \A r \in 1..Len(requests) :
           (/\ ResumedInStep(r)
            /\ requests[r].afterEvent
            /\ promises[requests[r].awaits].state = "resolved"
            /\ transports[TransportOf(requests[r].awaits)].readyState = "OPEN") =>
              /\ websocket = TransportOf(requests[r].awaits)
              /\ requests'[r].id # 0
    ]_vars

\* C5: every future returned by sendRequest is eventually settled, given that
\* timers fire, continuations run and every transport emits its events (FairSpec).
C5_EverySendRequestSettles ==
  \A r \in 1..MaxCreated :
     [](Len(requests) >= r => <>(Len(requests) >= r /\ requests[r].state # "pending"))

\* C6 as stated: a frame matching a pending request rejects it with the value of the
\* error field whenever the field is present, and resolves it with the payload
\* otherwise; the entry is removed in the same step.
ErrorFieldValue(m) == Val("string", m.error, "", 0)
Matches(m, r) ==
  /\ m.decodes /\ m.id = requests[r].id
  /\ requests[r].pc = "sent" /\ requests[r].state = "pending"

C7_RemovedAndSettledTogether ==
  [][ \A r \in 1..Len(requests) :
        LET idAfter == requests'[r].id
            removed == (\E h \in messageHandlers : h.id = idAfter)
                         /\ (\A h \in messageHandlers' : h.id # idAfter)
        IN /\ idAfter # 0 => (removed <=> SettledInStep(r))
           /\ (requests[r].id # 0 /\ ~Has(requests[r].id)) =>
                 (\A h \in messageHandlers' : h.id # requests[r].id)
           /\ requests[r].state # "pending" =>
                 /\ requests'[r].state = requests[r].state
                 /\ requests'[r].value = requests[r].value
    ]_vars

\* C7 witness of the race the claim describes: a request answered before its timer
\* fired, whose timer then found no entry.
C7_Witness ==
  \E r \in 1..Len(requests) :
     requests[r].state = "resolved" /\ requests[r].timer = "fired"

\* C8: identifiers are positive, start at 1, are allocated in strictly increasing
\* order in the step that transmits the request, and are never reused; the counter
\* never decreases.
Allocated == {r \in 1..Len(requests) : requests[r].id # 0}

C8_IdsFreshAndIncreasing ==
  /\ [](/\ \A r \in Allocated : requests[r].id \in 1..messageId
        /\ \A r \in 1..Len(requests) : requests[r].pc = "sent" => r \in Allocated
        /\ \A r1, r2 \in Allocated : r1 # r2 => requests[r1].id # requests[r2].id
        /\ Cardinality(Allocated) = messageId)
  /\ [][ /\ messageId' >= messageId
         /\ \A r \in 1..Len(requests) :
              /\ (requests[r].pc = "await" /\ requests'[r].pc = "sent") =>
                    /\ requests'[r].id = messageId + 1
                    /\ messageId' = messageId + 1
                    /\ \A q \in Allocated : requests[q].id < requests'[r].id
              /\ requests[r].id # 0 => requests'[r].id = requests[r].id
     ]_vars

\* C8 witness: two requests were transmitted, one on each of two connections, and
\* hold the ids 1 and 2.
C8_Witness ==
  /\ Len(transports) = 2
  /\ Len(requests) = 2
  /\ requests[1].id = 1 /\ requests[2].id = 2
  /\ messageId = 2

\* C9: when the connection promise a sendRequest awaits is rejected, the request's
\* future is rejected with that same transport error, and the request gets no id, no
\* table entry and no timer, and is not transmitted.
C9_ConnectFailurePropagates ==
  [][ \A r \in 1..Len(requests) :
        (ResumedInStep(r) /\ promises[requests[r].awaits].state = "rejected") =>
           /\ requests'[r].state = "rejected"
           /\ requests'[r].value = promises[requests[r].awaits].value
           /\ requests'[r].value = ErrorEvent(TransportOf(requests[r].awaits))
           /\ requests'[r].pc = "end"
           /\ requests'[r].id = 0
           /\ requests'[r].timer = "none"
           /\ UNCHANGED <<messageHandlers, messageId>>
    ]_vars

\* C9 witness: a request was rejected with a transport's error event and holds no id.
C9_Witness ==
  \E r \in 1..Len(requests) :
     /\ requests[r].state = "rejected"
     /\ requests[r].value.kind = "Event"
     /\ requests[r].id = 0

\* C10: closeWebSocket() called while the handle is null completes by logging that
\* no action was taken and leaves the handle, the connection promise, the pending
\* table and the id counter (and everything else) unchanged.
C10_CloseWithoutHandleIsNoOp ==
  [][ (websocket = 0 /\ CloseWebSocket) =>
         /\ console' = "no action"
         /\ UNCHANGED <<websocket, connectionPromise, messageHandlers, messageId,
                        transports, promises, requests>>
    ]_vars

\* C10 witness: closeWebSocket() has just run without a handle while a request was
\* pending in the table.
C10_Witness ==
  /\ console = "no action"
  /\ websocket = 0 /\ connectionPromise = 0
  /\ messageHandlers # {}
  /\ messageId > 0

\* the connection is Open: there is a handle and its transport is OPEN
IsOpen == websocket # 0 /\ transports[websocket].readyState = "OPEN"

\* C11: openWebSocket() called (directly or by sendRequest) while the connection is
\* Open creates no transport and no promise, leaves the handle and the connection
\* promise unchanged, and returns the connection promise, which is already resolved;
\* the connection is therefore still Open after the call, however often it is made.
C11_OpenWhileOpenIsIdempotent ==
  [][ (OpenCalled /\ IsOpen) =>
         /\ UNCHANGED <<websocket, connectionPromise, transports, promises>>
         /\ ret' = connectionPromise
         /\ promises'[ret'].state = "resolved"
         /\ IsOpen'
    ]_vars

\* C11 witness: openWebSocket() has just returned on an Open connection for which a
\* request had been sent before, without a second transport or promise.
C11_Witness ==
  /\ IsOpen
  /\ ret # 0 /\ ret = connectionPromise
  /\ promises[ret].state = "resolved"
  /\ Len(transports) = 1 /\ Len(promises) = 1
  /\ \E r \in 1..Len(requests) : requests[r].pc = "sent"

\* C12: whenever the connection promise a sendRequest awaits has resolved and the
\* request resumes, the handle is non-null and its transport is OPEN, so the request
\* is never rejected with 'WebSocket is not connected.'.
C12_NotConnectedUnreachable ==
  [][ \A r \in 1..Len(requests) :
        (ResumedInStep(r) /\ promises[requests[r].awaits].state = "resolved") =>
           /\ IsOpen
           /\ requests'[r].value # NotConnectedError
    ]_vars

\* the state of the connection manager, read off the handle as the code reads it
\* (lines 55, 61, 105): no handle, a connecting handle, an open handle; "Dead" is a
\* handle whose transport is closing or closed
ManagerState ==
  IF websocket = 0 THEN "Closed"
  ELSE IF transports[websocket].readyState = "OPEN" THEN "Open"
  ELSE IF transports[websocket].readyState = "CONNECTING" THEN "Connecting"
  ELSE "Dead"

\* C13 as stated: the manager's state changes only Closed -> Connecting on
\* openWebSocket with no handle, Connecting -> Open on a transport open event,
\* Connecting -> Closed on a transport error event, Open -> Closed on a transport
\* close event or a manual close.
C13_OnlyListedTransitions ==
  [][ ManagerState' # ManagerState =>
        \/ /\ ManagerState = "Closed" /\ ManagerState' = "Connecting"
           /\ OpenCalled /\ websocket = 0
        \/ /\ ManagerState = "Connecting" /\ ManagerState' = "Open"
           /\ \E t \in 1..Len(transports) : TransportOpen(t)
        \/ /\ ManagerState = "Connecting" /\ ManagerState' = "Closed"
           /\ \E t \in 1..Len(transports) : TransportError(t)
        \/ /\ ManagerState = "Open" /\ ManagerState' = "Closed"
           /\ (CloseWebSocket \/ \E t \in 1..Len(transports) : TransportClose(t))
    ]_vars

\* C13 amended: the manager is always Closed, Connecting or Open, and its state
\* changes only Closed -> Connecting on openWebSocket (called directly or by
\* sendRequest) with no handle, Connecting -> Open on the open event of the handle's
\* transport, and Connecting -> Closed or Open -> Closed on a transport error event, a
\* transport close event (of any transport the module created) or a manual close.
C13_TransitionsOfTheCode ==
  /\ [](ManagerState \in {"Closed", "Connecting", "Open"})
  /\ [][ ManagerState' # ManagerState =>
           \/ /\ ManagerState = "Closed" /\ ManagerState' = "Connecting"
              /\ OpenCalled /\ websocket = 0
           \/ /\ ManagerState = "Connecting" /\ ManagerState' = "Open"
              /\ TransportOpen(websocket)
           \/ /\ ManagerState \in {"Connecting", "Open"} /\ ManagerState' = "Closed"
              /\ \/ CloseWebSocket
                 \/ \E t \in 1..Len(transports) : TransportError(t) \/ TransportClose(t)
      ]_vars

\* C13 witness: a first connection was closed manually while connecting, a second
\* opened and was closed by its transport's close event, and a third is open.
C13_Witness ==
  /\ Len(transports) = 3
  /\ transports[1].readyState = "CLOSING"
  /\ transports[2].phase = "closed" /\ promises[transports[2].promise].state = "resolved"
  /\ websocket = 3 /\ ManagerState = "Open"

\* a step in which a transport emitted its error or close event, or closeWebSocket()
\* ran: a transport's event phase or readyState moved towards closed, or the call
\* logged that it took no action
ConnectionEndedInStep ==
  \/ \E t \in 1..Len(transports) :
        \/ transports'[t].phase # transports[t].phase
        \/ /\ transports'[t].readyState # transports[t].readyState
           /\ transports'[t].readyState \in {"CLOSING", "CLOSED"}
  \/ console' = "no action"

\* C14: a transport error event, a transport close event and a manual
\* closeWebSocket() leave the pending table unchanged and settle no request future;
\* a request that was sent stays pending until its own timer fires or a frame with
\* its id arrives, which are the only steps that settle it.
C14_ConnectionLossKeepsRequests ==
  [][ /\ ConnectionEndedInStep => UNCHANGED <<messageHandlers, requests>>
      /\ \A r \in 1..Len(requests) :
           (requests[r].pc = "sent" /\ SettledInStep(r)) =>
              \/ /\ requests[r].timer = "armed" /\ requests'[r].timer = "fired"
                 /\ requests'[r].value = TimeoutError(requests[r].type, requests[r].id)
              \/ \E m \in Frames : m.decodes /\ m.id = requests[r].id /\ TransportMessage(m)
    ]_vars

\* C14 witness: a request sent on the first connection is still pending in the table
\* after that connection's close event and a manual close of the second connection.
C14_Witness ==
  /\ Len(transports) = 2
  /\ transports[1].phase = "closed" /\ promises[transports[1].promise].state = "resolved"
  /\ transports[2].readyState = "CLOSING"
  /\ websocket = 0
  /\ Len(requests) >= 1
  /\ requests[1].pc = "sent" /\ requests[1].state = "pending" /\ Has(requests[1].id)

\* the frame cannot be attributed to a pending request: it fails to decode, carries
\* no id, or carries an id without an entry in the table
Unmatched(m) == ~m.decodes \/ m.id = 0 \/ ~Has(m.id)

\* a step that is a message event as far as the frame does not matter: a new task on
\* an OPEN transport that leaves everything but the table, the requests and the
\* console alone
MessageStep ==
  /\ ret' = 0
  /\ UNCHANGED <<websocket, connectionPromise, messageId, transports, promises>>
  /\ TaskMayStart
  /\ \E t \in 1..Len(transports) :
        transports[t].readyState = "OPEN" /\ transports[t].phase = "live"

\* the diagnostic _handleWebSocketMessage logs when it drops frame m
Diagnostic(m) == IF m.decodes THEN "no handler" ELSE "parse error"

\* C15: an incoming frame that fails to decode, carries no id, or carries an id with
\* no pending entry is dropped with a diagnostic: the handler's step for such a frame
\* logs the diagnostic, and a step that logs it settles no request future and leaves
\* the pending table, the handle, the connection promise and the identifier counter
\* unchanged.
C15_UnmatchedFrameDropped ==
  [][ MessageStep =>
        /\ \A m \in Frames :
             (Unmatched(m) /\ console' # Diagnostic(m)) => ~HandleWebSocketMessage(m)
        /\ console' \in {"no handler", "parse error"} =>
             UNCHANGED <<messageHandlers, requests, websocket, connectionPromise,
                         messageId>>
    ]_vars

\* C15 witness: an undecodable frame has just been dropped while a sent request was
\* pending in the table.
C15_Witness ==
  /\ console = "parse error"
  /\ \E r \in 1..Len(requests) :
        requests[r].pc = "sent" /\ requests[r].state = "pending" /\ Has(requests[r].id)

\* C16: the pending table holds an id only while the future of the request that was
\* given that id is unsettled: every entry belongs to a request that holds the
\* entry's id and whose future is still pending, also after a failure to encode or
\* transmit the frame.
C16_EntriesOnlyForPendingRequests ==
  \A h \in messageHandlers :
     /\ h.req \in 1..Len(requests)
     /\ requests[h.req].id = h.id
     /\ requests[h.req].state = "pending"

\* C17: closeWebSocket() called while a handle exists calls close() on that transport
\* and leaves the handle and the connection promise null; the next openWebSocket()
\* call therefore instantiates a new transport; and the connection promise of every
\* manually closed attempt is eventually settled, given that continuations run and
\* every transport emits its events (FairSpec).
C17_ManualCloseThenSettled ==
  /\ [][ /\ (websocket # 0 /\ CloseWebSocket) =>
              /\ transports'[websocket].readyState = "CLOSING"
              /\ websocket' = 0
              /\ connectionPromise' = 0
         /\ (OpenCalled /\ websocket = 0 /\ connectionPromise = 0) =>
              /\ Len(transports') = Len(transports) + 1
              /\ websocket' = Len(transports')
      ]_vars
  /\ \A t \in 1..MaxCreated :
       []((Len(transports) >= t /\ transports[t].readyState = "CLOSING") =>
            <>(Len(transports) >= t
                 /\ promises[transports[t].promise].state # "pending"))

\* the transports that are still connecting or open
LiveTransports ==
  {t \in 1..Len(transports) : transports[t].readyState \in {"CONNECTING", "OPEN"}}

\* C18: between handler steps at most one transport that is still connecting or open
\* exists, whatever the sequence of openWebSocket, sendRequest, closeWebSocket and
\* transport error/close events.
C18_AtMostOneLiveTransport == Cardinality(LiveTransports) <= 1

\* C19: an error or close event of a transport that is not the current handle leaves
\* the handle and the connection promise unchanged; and whenever the most recently
\* created transport is connecting or open (so not manually closed), the handle
\* refers to it and the connection promise is the one created with it.
C19_StaleEventsLeaveNewAttempt ==
  /\ [][ \A t \in 1..Len(transports) :
           (websocket # 0 /\ t # websocket
              /\ (TransportError(t) \/ TransportClose(t))) =>
                UNCHANGED <<websocket, connectionPromise>>
      ]_vars
  /\ [](LET last == Len(transports) IN
          (last > 0 /\ last \in LiveTransports) =>
             /\ websocket = last
             /\ connectionPromise = transports[last].promise)

\* C20: between handler steps the handle is null exactly when the connection promise
\* is null; hence the promise executor of openWebSocket always runs with a null
\* handle, never takes its 'already open' or 'already in progress' branch, and
\* creates every connection promise together with a transport whose open and error
\* handlers settle that promise.
C20_HandleNullIffPromiseNull ==
  /\ []((websocket = 0) <=> (connectionPromise = 0))
  /\ [](/\ console # "in progress"
        /\ Len(promises) = Len(transports)
        /\ \A p \in 1..Len(promises) : transports[p].promise = p)
  /\ [][ Len(promises') # Len(promises) =>
           /\ websocket = 0 /\ connectionPromise = 0
           /\ Len(transports') = Len(transports) + 1
           /\ websocket' = Len(transports')
           /\ connectionPromise' = Len(promises')
           /\ transports'[websocket'].promise = connectionPromise'
           /\ promises'[connectionPromise'].state = "pending"
      ]_vars

\* C20 witness: after an error event and a manual close cleared handle and promise,
\* a third call of the executor has created the third transport with its promise.
C20_Witness ==
  /\ Len(transports) = 3 /\ Len(promises) = 3
  /\ transports[1].phase = "closed" /\ promises[1].state = "rejected"
  /\ transports[2].readyState = "CLOSING"
  /\ websocket = 3 /\ connectionPromise = 3

====
